---- MODULE Spec2Model ----
(***************************************************************************)
(* Lease-based leader election of store/postgresql (adminStore,            *)
(* leaderElectionStore, leaderElectionStateMachine).                       *)
(*                                                                         *)
(* Every peer process owns one adminStore; all peers share the             *)
(* leader_election row of one election key.  A store call                  *)
(* (CreateLeaderElection, GetVersion, CompareAndSwapVersion,               *)
(* CheckMtimeExpired) is one atomic step of the database; the local code   *)
(* that follows a call up to the next call belongs to the same step.       *)
(* Time is counted in seconds.  A tick runs to completion within the       *)
(* second in which its ticker fires, interleaved with the ticks of the     *)
(* other peers.                                                            *)
(***************************************************************************)
EXTENDS Integers, Sequences, FiniteSets, TLC

\* ------------------------------------------------------------ constants

TickTime == 2
LeaseTime == 10

\* identities of the peer processes (utils.LocalHost of each)
Peers == {"A", "B"}
\* the election key all peers contend for
Key == "k"
\* the leader column of a record nobody has won yet
NoLeader == ""

\* ------------------------------------------------------------ bounds

\* versions are explored up to this value
MaxVersion == 4
\* what the environment does in one behaviour of Spec: store calls failing with
\* an error, ReleaseLeaderElection calls, StopLeaderElections calls and process
\* exits, together
MaxEvents == 1
\* the ReleaseLeaderElection calls of one behaviour of SpecRelease
MaxReleases == 2

\* heartbeats applied in a row that a run of a leader is followed for
HbRun == 10
\* versions of the scenario that follows such a run
LongVersion == HbRun + 2

\* the age of mtime is counted up to one second past the lease
DiffCap == LeaseTime + 1
\* the ticks after a release are counted up to one past the cooldown
CoolCap == (LeaseTime \div TickTime) * 3 + 1
\* the seconds after the leader's exit are counted up to one past lease and tick
LostCap == LeaseTime + TickTime + 1
\* the versions a CompareAndSwapVersion is called with
TopVersion == IF MaxVersion > LongVersion THEN MaxVersion ELSE LongVersion

\* the clock of the listing counts in parts of a second, this many to the second
Sub == 3
\* the listing follows a row up to this many seconds past its lease
ListPast == 2

VARIABLES
    rec,        \* the leader_election row of Key
    leMap,      \* leMap[p]: Key is in adminStore.leMap of peer p
    mutex,      \* mutex[p]: the method of peer p's adminStore that holds its mutex
    le,         \* le[p]: the leaderElectionStateMachine of peer p and its goroutine
    last,       \* what the latest step did: operation, store call, events published
    env,        \* what the environment may still do in this behaviour
    casApplied, \* casApplied[v]: applied CompareAndSwapVersion calls with curVersion v
    run,        \* run[p]: the heartbeats applied in a row since p became leader (hb),
                \* the events p has published since, and whether an election made it leader
    cool,       \* cool[p]: the ticks p has begun since it honoured a release
    lost,       \* the seconds since the leader's process exited, and who survives
    tick0,      \* tick0[p]: the state machine of p as its tick in progress found it
    missed,     \* missed[p]: the heartbeats in a row of leader p that a store error
                \* has failed, the store being healthy since
    early,      \* early[p]: the events p has published since a StartLeaderElection
                \* that found the fresh lease of another peer, up to its first
                \* dead check (-1 otherwise)
    seen,       \* seen[p]: the stored version when the dead check of p's tick in
                \* progress found the lease expired (-1 otherwise)
    sig,        \* sig[p]: where p's state machine was when its release signal was
                \* set, and "discarded" once a follower's tick has consumed it
    elected,    \* the peer whose election CAS applied last, and what it had seen
    listed      \* a row read at a time of the fine clock: its mtime, the time, and
                \* what ListLeaderElections and CheckMtimeExpired have made of it

vars == <<rec, leMap, mutex, le, last, env, casApplied, run, cool, lost, tick0, missed, early, seen, elected,
          sig, listed>>

Min(a, b) == IF a < b THEN a ELSE b

\* ------------------------------------------------------------ the record store

NoRecord == [exists |-> FALSE, leader |-> NoLeader, version |-> 0, diffTime |-> 0]

\* the row an INSERT of (elect_key, leader) creates: version and mtime take the
\* column defaults
NewRecord == [exists |-> TRUE, leader |-> NoLeader, version |-> 0, diffTime |-> 0]

\* mtime of a row that an UPDATE has changed: the current time
TouchMtime(r) == [r EXCEPT !.diffTime = 0]

\* the INSERT replaces the row of an existing key
CreateResets(r) == NewRecord

\* CreateLeaderElection: the INSERT fails on an existing key, the failure is
\* logged and dropped, the transaction commits
CreateLeaderElection(r) == IF r.exists THEN r ELSE NewRecord

\* GetVersion: select version
GetVersion(r) == r.version

\* the update has no "and version = curVersion"
CasIgnoresVersion(r, curVersion, newVersion, leader) ==
    IF r.exists
    THEN [applied |-> TRUE,
          rec |-> TouchMtime([r EXCEPT !.leader = leader, !.version = newVersion])]
    ELSE [applied |-> FALSE, rec |-> r]

\* the update has "and version >= curVersion"
CasAtLeastVersion(r, curVersion, newVersion, leader) ==
    IF r.exists /\ r.version >= curVersion
    THEN [applied |-> TRUE,
          rec |-> TouchMtime([r EXCEPT !.leader = leader, !.version = newVersion])]
    ELSE [applied |-> FALSE, rec |-> r]

\* CompareAndSwapVersion: update ... where elect_key = key and version = curVersion;
\* applied is rows > 0
CompareAndSwapVersion(r, curVersion, newVersion, leader) ==
    IF r.exists /\ r.version = curVersion
    THEN [applied |-> TRUE,
          rec |-> TouchMtime([r EXCEPT !.leader = leader, !.version = newVersion])]
    ELSE [applied |-> FALSE, rec |-> r]

\* the comparison is the wrong way round
CheckMtimeFresh(r, leaseTime) ==
    [leader |-> r.leader, dead |-> r.diffTime < leaseTime]

\* CheckMtimeExpired: (leader, int32(diffTime) > leaseTime)
CheckMtimeExpired(r, leaseTime) ==
    [leader |-> r.leader, dead |-> r.diffTime > leaseTime]

\* ------------------------------------------------------------ the state machine

\* a new state machine believes it is the leader
NewLeaderStateMachine(pc) ==
    [pc |-> pc, leaderFlag |-> 1, version |-> 0, leader |-> NoLeader,
     releaseSignal |-> 0, releaseTickLimit |-> 0, curVersion |-> 0,
     timer |-> 0, cancelled |-> FALSE]

\* the fields StartLeaderElection gives a new state machine; pc is the place of
\* its goroutine, curVersion the local variable of elect, timer the seconds until
\* its ticker fires, cancelled its ctx
NewStateMachine(pc) ==
    [pc |-> pc, leaderFlag |-> 0, version |-> 0, leader |-> NoLeader,
     releaseSignal |-> 0, releaseTickLimit |-> 0, curVersion |-> 0,
     timer |-> 0, cancelled |-> FALSE]

NoStateMachine == NewStateMachine("none")

\* nobody holds adminStore.mutex
NoHolder == ""

\* m.mutex.Lock() returns: the mutex is free
CanLock(p) == mutex[p] = NoHolder

isLeader(flag) == flag > 0

\* a state machine m and the events it has published in the current step
Do(m, pub) == [m |-> m, pub |-> pub]

\* the event publishLeaderChangeEvent hands to the event hub
publishLeaderChangeEvent(c) ==
    Do(c.m, Append(c.pub, [Key |-> Key, Leader |-> isLeader(c.m.leaderFlag),
                           LeaderHost |-> c.m.leader]))

\* a follower keeps the leader it knew
changeToFollowerKeepsLeader(c, leader) ==
    publishLeaderChangeEvent(Do([c.m EXCEPT !.leaderFlag = 0], c.pub))

\* the new leader is not announced
changeToLeaderSilent(c, p) == Do([c.m EXCEPT !.leaderFlag = 1, !.leader = p], c.pub)

changeToLeader(c, p) ==
    publishLeaderChangeEvent(Do([c.m EXCEPT !.leaderFlag = 1, !.leader = p], c.pub))

changeToFollower(c, leader) ==
    publishLeaderChangeEvent(Do([c.m EXCEPT !.leaderFlag = 0, !.leader = leader], c.pub))

checkReleaseTickLimit(m) == m.releaseTickLimit > 0

\* the signal is read and left set
checkReleaseSignalKeeps(m) == m

\* checkAndClearReleaseSignal: the state machine after the swap of 1 for 0
checkAndClearReleaseSignal(m) == [m EXCEPT !.releaseSignal = 0]

\* the cooldown is counted in seconds
setReleaseTickLimitSeconds(m) == [m EXCEPT !.releaseTickLimit = LeaseTime * 3]

\* the cooldown is one lease, not three
setReleaseTickLimitOneLease(m) == [m EXCEPT !.releaseTickLimit = LeaseTime \div TickTime]

setReleaseTickLimit(m) == [m EXCEPT !.releaseTickLimit = (LeaseTime \div TickTime) * 3]

\* the ticker has fired and the select of mainLoop takes the tick
TickDue(p) == le[p].pc = "wait" /\ le[p].timer = 0

\* the tick returns: the goroutine is back in the select, the ticker fires again
\* TickTime after it last fired
EndTick(c) == Do([c.m EXCEPT !.pc = "wait", !.timer = TickTime, !.curVersion = 0], c.pub)

\* the tick goes on to its next store call
Goto(c, pc) == Do([c.m EXCEPT !.pc = pc], c.pub)

\* the release arms the cooldown and leaves the leader a leader
tickReleaseKeepsLeader(m) == EndTick(Do(setReleaseTickLimit(m), <<>>))

\* tick of a leader whose release signal was set
tickRelease(m) ==
    LET c == changeToFollower(Do(m, <<>>), NoLeader)
    IN  EndTick(Do(setReleaseTickLimit(c.m), c.pub))

\* heartbeat: le.version = curVersion + 1 before the CAS
heartbeat(m) == [m EXCEPT !.version = m.version + 1]

\* a heartbeat that has not applied makes the leader a follower at once
tickAfterHeartbeatDemotes(m, success, err) ==
    IF ~err /\ success THEN EndTick(Do(m, <<>>))
    ELSE Goto(changeToFollower(Do(m, <<>>), NoLeader), "check")

\* an applied heartbeat announces the leader again
tickAfterHeartbeatAnnounces(m, success, err) ==
    IF ~err /\ success THEN EndTick(changeToLeader(Do(m, <<>>), m.leader))
    ELSE Goto(Do(m, <<>>), "check")

\* tick after heartbeat has returned (success, err)
tickAfterHeartbeat(m, success, err) ==
    IF ~err /\ success THEN EndTick(Do(m, <<>>)) ELSE Goto(Do(m, <<>>), "check")

\* every dead check that finds another leader announces it
tickAfterCheckAlwaysAnnounces(m, p, leader, dead, err) ==
    IF err THEN EndTick(Do(m, <<>>))
    ELSE IF ~dead
    THEN LET c1 == IF leader = p THEN changeToLeader(Do(m, <<>>), p) ELSE Do(m, <<>>)
             c2 == IF leader # p THEN changeToFollower(c1, leader) ELSE c1
         IN  EndTick(c2)
    ELSE Goto(Do(m, <<>>), "elect")

\* the leader read is compared with the leader known when the tick began
tickAfterCheckComparesOld(m, p, leader, dead, err) ==
    IF err THEN EndTick(Do(m, <<>>))
    ELSE IF ~dead
    THEN LET c1 == IF leader = p THEN changeToLeader(Do(m, <<>>), p) ELSE Do(m, <<>>)
             c2 == IF m.leader # leader THEN changeToFollower(c1, leader) ELSE c1
         IN  EndTick(c2)
    ELSE Goto(Do(m, <<>>), "elect")

\* an error of the dead check ends the goroutine
tickAfterCheckGivesUp(m, p, leader, dead, err) ==
    IF err THEN Do([m EXCEPT !.pc = "none"], <<>>)
    ELSE IF ~dead
    THEN LET c1 == IF leader = p THEN changeToLeader(Do(m, <<>>), p) ELSE Do(m, <<>>)
             c2 == IF c1.m.leader # leader THEN changeToFollower(c1, leader) ELSE c1
         IN  EndTick(c2)
    ELSE Goto(Do(m, <<>>), "elect")

\* tick after checkLeaderDead has returned (leader, dead, err)
tickAfterCheck(m, p, leader, dead, err) ==
    IF err THEN EndTick(Do(m, <<>>))
    ELSE IF ~dead
    THEN LET c1 == IF leader = p THEN changeToLeader(Do(m, <<>>), p) ELSE Do(m, <<>>)
             c2 == IF c1.m.leader # leader THEN changeToFollower(c1, leader) ELSE c1
         IN  EndTick(c2)
    ELSE Goto(Do(m, <<>>), "elect")

\* le.version is set to curVersion, not to curVersion + 1
electKeepsVersion(m, curVersion, err) ==
    IF err THEN EndTick(Do(m, <<>>))
    ELSE Goto(Do([m EXCEPT !.curVersion = curVersion, !.version = curVersion], <<>>), "cas")

\* elect after GetVersion has returned (curVersion, err)
electAfterGetVersion(m, curVersion, err) ==
    IF err THEN EndTick(Do(m, <<>>))
    ELSE Goto(Do([m EXCEPT !.curVersion = curVersion, !.version = curVersion + 1], <<>>),
              "cas")

\* an election that fails with an error makes the state machine a follower
tickAfterElectDemotes(m, p, success, err) ==
    IF err THEN EndTick(changeToFollower(Do(m, <<>>), NoLeader))
    ELSE IF success THEN EndTick(changeToLeader(Do(m, <<>>), p))
    ELSE EndTick(Do(m, <<>>))

\* a won election leaves the state machine as it is
tickAfterElectForgets(m, p, success, err) == EndTick(Do(m, <<>>))

\* tick after elect has returned (success, err)
tickAfterElect(m, p, success, err) ==
    IF err THEN EndTick(Do(m, <<>>))
    ELSE IF success THEN EndTick(changeToLeader(Do(m, <<>>), p))
    ELSE EndTick(Do(m, <<>>))

\* ------------------------------------------------------------ steps

NoCall == [name |-> "none", curVersion |-> 0, applied |-> FALSE, err |-> FALSE]

Call(name, curVersion, applied, err) ==
    [name |-> name, curVersion |-> curVersion, applied |-> applied, err |-> err]

Step(op, p, call, pub, ret) ==
    [op |-> op, peer |-> p, call |-> call, pub |-> pub, ret |-> ret]

\* a store call fails with an error while the scenario has faults left
Fault(err) == /\ err => env.faults > 0
              /\ env' = IF err THEN [env EXCEPT !.faults = @ - 1] ELSE env

\* the scenarios of Spec: at most MaxEvents events of the environment
Scenarios ==
    {e \in [faults : 0..MaxEvents, releases : 0..MaxEvents, stops : 0..MaxEvents,
            crashes : 0..MaxEvents, maxVersion : {MaxVersion}] :
       e.faults + e.releases + e.stops + e.crashes <= MaxEvents}

NoRun == [hb |-> -1, ev |-> 0, evLeader |-> 0, byCas |-> FALSE]

NoLoss == [on |-> FALSE, t |-> 0, won |-> FALSE, who |-> "", running |-> {}, free |-> {}]

InitProgram ==
    /\ rec = NoRecord
    /\ leMap = [p \in Peers |-> FALSE]
    /\ mutex = [p \in Peers |-> NoHolder]
    /\ le = [p \in Peers |-> NoStateMachine]
    /\ last = Step("init", "", NoCall, <<>>, "")
    /\ casApplied = [v \in 0..TopVersion |-> 0]
    /\ run = [p \in Peers |-> NoRun]
    /\ cool = [p \in Peers |-> -1]
    /\ lost = NoLoss
    /\ tick0 = [p \in Peers |-> NoStateMachine]
    /\ missed = [p \in Peers |-> 0]
    /\ early = [p \in Peers |-> -1]
    /\ seen = [p \in Peers |-> -1]
    /\ elected = [by |-> "", seen |-> -1]
    /\ sig = [p \in Peers |-> ""]

\* the election takes no look at the listing
NoListing == [mtime |-> 0, now |-> 0, Valid |-> "", dead |-> ""]

Init == InitProgram /\ env \in Scenarios /\ listed = NoListing

\* adminStore.StartLeaderElection: with the mutex held, return nil for a key of
\* the registry; otherwise call CreateLeaderElection (the mutex stays held while
\* the store works) and, unless it fails, register the state machine and start
\* its goroutine
StartLeaderElection(p) ==
    \/ /\ CanLock(p)
       /\ leMap[p]
       /\ last' = Step("StartLeaderElection", p, NoCall, <<>>, "nil")
       /\ UNCHANGED <<rec, leMap, mutex, le, env>>
    \/ /\ CanLock(p)
       /\ ~leMap[p]
       /\ le[p].pc = "none"
       /\ mutex' = [mutex EXCEPT ![p] = "StartLeaderElection"]
       /\ last' = Step("StartLock", p, NoCall, <<>>, "")
       /\ UNCHANGED <<rec, leMap, le, env>>
    \/ /\ mutex[p] = "StartLeaderElection"
       /\ mutex' = [mutex EXCEPT ![p] = NoHolder]
       /\ \E err \in BOOLEAN :
            /\ Fault(err)
            /\ IF err
               THEN /\ last' = Step("StartLeaderElection", p,
                                    Call("Create", 0, FALSE, TRUE), <<>>, "error")
                    /\ UNCHANGED <<rec, leMap, le>>
               ELSE /\ rec' = CreateLeaderElection(rec)
                    /\ leMap' = [leMap EXCEPT ![p] = TRUE]
                    /\ le' = [le EXCEPT ![p] = NewStateMachine("spawned")]
                    /\ last' = Step("StartLeaderElection", p,
                                    Call("Create", 0, FALSE, FALSE), <<>>, "nil")

\* mainLoop up to its select: changeToFollower(""), the ticker starts
MainLoopEnter(p) ==
    /\ le[p].pc = "spawned"
    /\ LET c == EndTick(changeToFollower(Do(le[p], <<>>), NoLeader)) IN
         /\ le' = [le EXCEPT ![p] = c.m]
         /\ last' = Step("MainLoopEnter", p, NoCall, c.pub, "")
    /\ UNCHANGED <<rec, leMap, mutex, env>>

\* tick, checkReleaseTickLimit is true: the tick is abandoned
TickSkip(p) ==
    /\ TickDue(p)
    /\ checkReleaseTickLimit(le[p])
    /\ le' = [le EXCEPT ![p] =
                EndTick(Do([@ EXCEPT !.releaseTickLimit = @ - 1], <<>>)).m]
    /\ last' = Step("TickSkip", p, NoCall, <<>>, "")
    /\ UNCHANGED <<rec, leMap, mutex, env>>

\* tick of a leader whose release signal is set
TickRelease(p) ==
    /\ TickDue(p)
    /\ ~checkReleaseTickLimit(le[p])
    /\ isLeader(le[p].leaderFlag)
    /\ le[p].releaseSignal = 1
    /\ LET c == tickRelease(checkAndClearReleaseSignal(le[p])) IN
         /\ le' = [le EXCEPT ![p] = c.m]
         /\ last' = Step("TickRelease", p, NoCall, c.pub, "")
    /\ UNCHANGED <<rec, leMap, mutex, env>>

\* tick of a leader without release signal: heartbeat
TickHeartbeat(p) ==
    /\ TickDue(p)
    /\ ~checkReleaseTickLimit(le[p])
    /\ isLeader(le[p].leaderFlag)
    /\ le[p].releaseSignal = 0
    /\ le[p].version < env.maxVersion
    /\ \E err \in BOOLEAN :
         LET curVersion == le[p].version
             m == heartbeat(le[p])
             cas == IF err THEN [applied |-> FALSE, rec |-> rec]
                    ELSE CompareAndSwapVersion(rec, curVersion, m.version, p)
             c == tickAfterHeartbeat(m, cas.applied, err)
         IN  /\ Fault(err)
             /\ rec' = cas.rec
             /\ le' = [le EXCEPT ![p] = c.m]
             /\ last' = Step("TickHeartbeat", p,
                             Call("CAS", curVersion, cas.applied, err), c.pub, "")
    /\ UNCHANGED <<leMap, mutex>>

\* the leader-dead check of a tick: of a follower (the release signal is consumed)
\* or of a leader whose heartbeat did not apply
TickCheck(p) ==
    /\ \/ le[p].pc = "check"
       \/ TickDue(p) /\ ~checkReleaseTickLimit(le[p]) /\ ~isLeader(le[p].leaderFlag)
    /\ \E err \in BOOLEAN :
         LET m == IF le[p].pc = "check" THEN le[p] ELSE checkAndClearReleaseSignal(le[p])
             chk == CheckMtimeExpired(rec, LeaseTime)
             c == tickAfterCheck(m, p, chk.leader, chk.dead, err)
         IN  /\ Fault(err)
             /\ le' = [le EXCEPT ![p] = c.m]
             /\ last' = Step("TickCheck", p, Call("Check", 0, FALSE, err), c.pub, "")
    /\ UNCHANGED <<rec, leMap, mutex>>

\* elect, first half: GetVersion, le.version = curVersion + 1
ElectGetVersion(p) ==
    /\ le[p].pc = "elect"
    /\ rec.version < env.maxVersion
    /\ \E err \in BOOLEAN :
         LET c == electAfterGetVersion(le[p], GetVersion(rec), err)
         IN  /\ Fault(err)
             /\ le' = [le EXCEPT ![p] = c.m]
             /\ last' = Step("ElectGetVersion", p,
                             Call("GetVersion", 0, FALSE, err), c.pub, "")
    /\ UNCHANGED <<rec, leMap, mutex>>

\* elect, second half: CompareAndSwapVersion(curVersion, le.version, LocalHost),
\* and the rest of the tick
ElectCAS(p) ==
    /\ le[p].pc = "cas"
    /\ \E err \in BOOLEAN :
         LET curVersion == le[p].curVersion
             cas == IF err THEN [applied |-> FALSE, rec |-> rec]
                    ELSE CompareAndSwapVersion(rec, curVersion, le[p].version, p)
             c == tickAfterElect(le[p], p, cas.applied, err)
         IN  /\ Fault(err)
             /\ rec' = cas.rec
             /\ le' = [le EXCEPT ![p] = c.m]
             /\ last' = Step("ElectCAS", p,
                             Call("CAS", curVersion, cas.applied, err), c.pub, "")
    /\ UNCHANGED <<leMap, mutex>>

\* the goroutine ends without its last event
LoopExitSilent(p) ==
    /\ le[p].pc = "wait"
    /\ le[p].cancelled
    /\ le' = [le EXCEPT ![p] = NoStateMachine]
    /\ last' = Step("LoopExit", p, NoCall, <<>>, "")
    /\ UNCHANGED <<rec, leMap, mutex, env>>

\* the cancellation ends the goroutine wherever it is
LoopExitAnywhere(p) ==
    /\ le[p].pc # "none"
    /\ le[p].cancelled
    /\ LET c == changeToFollower(Do(le[p], <<>>), NoLeader) IN
         /\ le' = [le EXCEPT ![p] = NoStateMachine]
         /\ last' = Step("LoopExit", p, NoCall, c.pub, "")
    /\ UNCHANGED <<rec, leMap, mutex, env>>

\* mainLoop, case <-le.ctx.Done(): changeToFollower("") and return.  The state
\* machine is in no registry any more
LoopExit(p) ==
    /\ le[p].pc = "wait"
    /\ le[p].cancelled
    /\ LET c == changeToFollower(Do(le[p], <<>>), NoLeader) IN
         /\ le' = [le EXCEPT ![p] = NoStateMachine]
         /\ last' = Step("LoopExit", p, NoCall, c.pub, "")
    /\ UNCHANGED <<rec, leMap, mutex, env>>

\* the state machines are cancelled and stay in the registry
StopLeaderElectionsKeepsRegistry(p) ==
    /\ CanLock(p)
    /\ env.stops > 0
    /\ env' = [env EXCEPT !.stops = @ - 1]
    /\ le' = [le EXCEPT ![p] = IF leMap[p] THEN [@ EXCEPT !.cancelled = TRUE] ELSE @]
    /\ last' = Step("StopLeaderElections", p, NoCall, <<>>, "")
    /\ UNCHANGED <<rec, leMap, mutex>>

\* adminStore.StopLeaderElections
StopLeaderElections(p) ==
    /\ CanLock(p)
    /\ env.stops > 0
    /\ env' = [env EXCEPT !.stops = @ - 1]
    /\ leMap' = [leMap EXCEPT ![p] = FALSE]
    /\ le' = [le EXCEPT ![p] = IF leMap[p] THEN [@ EXCEPT !.cancelled = TRUE] ELSE @]
    /\ last' = Step("StopLeaderElections", p, NoCall, <<>>, "")
    /\ UNCHANGED <<rec, mutex>>

\* the release is carried out at once, not left to the next tick
setReleaseSignalStepsDown(m) == [m EXCEPT !.releaseSignal = 1, !.leaderFlag = 0]

setReleaseSignal(m) == [m EXCEPT !.releaseSignal = 1]

\* the state machine is read without a look at the registry
IsLeaderOfAnyMachine(p) == isLeader(le[p].leaderFlag)

\* adminStore.IsLeader
IsLeader(p) == IF leMap[p] THEN isLeader(le[p].leaderFlag) ELSE FALSE

CallIsLeader(p) ==
    /\ CanLock(p)
    /\ last' = Step("IsLeader", p, NoCall, <<>>, IF IsLeader(p) THEN "true" ELSE "false")
    /\ UNCHANGED <<rec, leMap, mutex, le, env>>

\* adminStore.ReleaseLeaderElection
ReleaseLeaderElection(p) ==
    /\ CanLock(p)
    /\ env.releases > 0
    /\ env' = [env EXCEPT !.releases = @ - 1]
    /\ IF leMap[p]
       THEN /\ le' = [le EXCEPT ![p] = setReleaseSignal(@)]
            /\ last' = Step("ReleaseLeaderElection", p, NoCall, <<>>, "nil")
       ELSE /\ last' = Step("ReleaseLeaderElection", p, NoCall, <<>>, "not started")
            /\ UNCHANGED le
    /\ UNCHANGED <<rec, leMap, mutex>>

\* the process of peer p exits: its registry and its goroutines are gone
Crash(p) ==
    /\ le[p].pc # "none"
    /\ env.crashes > 0
    /\ env' = [env EXCEPT !.crashes = @ - 1]
    /\ leMap' = [leMap EXCEPT ![p] = FALSE]
    /\ mutex' = [mutex EXCEPT ![p] = NoHolder]
    /\ le' = [le EXCEPT ![p] = NoStateMachine]
    /\ last' = Step("Crash", p, NoCall, <<>>, "")
    /\ UNCHANGED rec

\* one second passes: no goroutine is inside a tick or has one due, no method
\* of an adminStore is inside a store call
Advance ==
    /\ \A p \in Peers : CanLock(p)
    /\ \A p \in Peers :
         \/ le[p].pc = "none"
         \/ le[p].pc = "wait" /\ le[p].timer > 0 /\ ~le[p].cancelled
    /\ le' = [p \in Peers |->
                IF le[p].pc = "wait" THEN [le[p] EXCEPT !.timer = @ - 1] ELSE le[p]]
    /\ rec' = IF rec.exists
              THEN [rec EXCEPT !.diffTime = Min(@ + 1, DiffCap)] ELSE rec
    /\ last' = Step("Advance", "", NoCall, <<>>, "")
    /\ UNCHANGED <<leMap, mutex, env>>

\* ------------------------------------------------------------ what a step is recorded as

\* the step begins a tick of its peer
BeginsTick(p) ==
    \/ last'.op \in {"TickSkip", "TickRelease", "TickHeartbeat"}
    \/ last'.op = "TickCheck" /\ le[p].pc = "wait"

\* the step makes its peer the leader
Acquires(p) == ~isLeader(le[p].leaderFlag) /\ isLeader(le'[p].leaderFlag)

\* the calls of the adminStore that leave the tick loop as it is
ApiOps == {"IsLeader", "ReleaseLeaderElection", "StopLeaderElections", "StartLeaderElection"}

ObserveCas ==
    casApplied' =
        IF last'.call.name = "CAS" /\ last'.call.applied
        THEN [casApplied EXCEPT ![last'.call.curVersion] = Min(@ + 1, 2)]
        ELSE casApplied

\* the events of pub that announce p as the leader
LeaderEvents(pub, p) ==
    Cardinality({i \in DOMAIN pub : pub[i].Leader /\ pub[i].LeaderHost = p})

ObserveRun ==
    run' = [p \in Peers |->
              IF p # last'.peer THEN run[p]
              ELSE IF Acquires(p)
              THEN [hb |-> 0, ev |-> Len(last'.pub), evLeader |-> LeaderEvents(last'.pub, p),
                    byCas |-> last'.call.applied]
              ELSE IF run[p].hb < 0 THEN NoRun
              ELSE IF last'.op = "TickHeartbeat" /\ last'.call.applied
              THEN [hb |-> Min(run[p].hb + 1, HbRun),
                    ev |-> Min(run[p].ev + Len(last'.pub), 2),
                    evLeader |-> Min(run[p].evLeader + LeaderEvents(last'.pub, p), 2),
                    byCas |-> run[p].byCas]
              ELSE IF last'.op \in ApiOps /\ le'[p].pc = le[p].pc THEN run[p]
              ELSE NoRun]

ObserveCool ==
    cool' = [p \in Peers |->
               IF p # last'.peer THEN cool[p]
               ELSE IF last'.op = "TickRelease" THEN 0
               ELSE IF le'[p].pc \in {"none", "spawned"} THEN -1
               ELSE IF cool[p] >= 0 /\ BeginsTick(p) THEN Min(cool[p] + 1, CoolCap)
               ELSE cool[p]]

Running(q) == leMap[q] /\ le[q].pc # "none" /\ ~le[q].cancelled

ObserveLost ==
    lost' =
        LET p == last'.peer IN
        IF last'.op = "Crash" /\ isLeader(le[p].leaderFlag) /\ rec.leader = p
        THEN [on |-> TRUE, t |-> 0, won |-> FALSE, who |-> p,
              running |-> {q \in Peers \ {p} : Running(q)},
              free |-> {q \in Peers \ {p} : Running(q) /\ le[q].releaseTickLimit = 0}]
        ELSE IF ~lost.on THEN lost
        ELSE IF last'.call.err THEN NoLoss
        ELSE IF last'.op = "Advance" THEN [lost EXCEPT !.t = Min(@ + 1, LostCap)]
        ELSE IF p = lost.who /\ le'[p].pc # "none" THEN NoLoss
        ELSE IF last'.op \in {"StopLeaderElections", "Crash"}
        THEN [lost EXCEPT !.running = @ \ {p}, !.free = @ \ {p}]
        ELSE IF last'.op = "TickRelease" THEN [lost EXCEPT !.free = @ \ {p}]
        ELSE IF p \in lost.running /\ Acquires(p) THEN [lost EXCEPT !.won = TRUE]
        ELSE lost

\* the state machine of p as the tick found it that the step belongs to
TickStart(p) == IF BeginsTick(p) THEN le[p] ELSE tick0[p]

ObserveTick ==
    tick0' = [p \in Peers |->
                IF le'[p].pc \notin {"check", "elect", "cas"} THEN NoStateMachine
                ELSE IF p = last'.peer THEN TickStart(p)
                ELSE tick0[p]]

\* p won an election, all its heartbeats have applied, the record is its own
\* and no other peer believes it is the leader
SoleLeader(p) ==
    /\ run[p].hb >= 0 /\ run[p].byCas
    /\ rec.leader = p /\ rec.version = le[p].version
    /\ \A q \in Peers \ {p} : ~isLeader(le[q].leaderFlag)

ObserveMissed ==
    missed' = [p \in Peers |->
                 IF last'.peer = p /\ last'.op = "TickHeartbeat" /\ last'.call.err
                 THEN IF SoleLeader(p) THEN 1
                      ELSE IF missed[p] = 1 THEN 2
                      ELSE 0
                 ELSE IF last'.call.err \/ le'[p].pc \in {"none", "spawned"} THEN 0
                 ELSE missed[p]]

ObserveEarly ==
    early' = [p \in Peers |->
                IF le'[p].pc = "none" THEN -1
                ELSE IF p # last'.peer THEN early[p]
                ELSE IF le'[p].pc = "spawned"
                THEN IF /\ rec.leader \in Peers \ {p}
                        /\ ~CheckMtimeExpired(rec, LeaseTime).dead
                     THEN 0 ELSE -1
                ELSE IF last'.op = "TickCheck" \/ early[p] < 0 THEN -1
                ELSE Min(early[p] + Len(last'.pub), 2)]

ObserveElected ==
    /\ seen' = [p \in Peers |->
                  IF le'[p].pc \notin {"elect", "cas"} THEN -1
                  ELSE IF p = last'.peer /\ last'.op = "TickCheck" THEN rec.version
                  ELSE seen[p]]
    /\ elected' = IF last'.op = "ElectCAS" /\ last'.call.applied
                  THEN [by |-> last'.peer, seen |-> seen[last'.peer]]
                  ELSE elected

ObserveSignal ==
    sig' = [p \in Peers |->
              IF le'[p].pc = "none" THEN ""
              ELSE IF p # last'.peer THEN sig[p]
              ELSE IF last'.op = "ReleaseLeaderElection" /\ last'.ret = "nil"
              THEN IF isLeader(le[p].leaderFlag) THEN "leader"
                   ELSE IF le[p].pc \in {"check", "elect", "cas"} THEN "followerInTick"
                   ELSE "follower"
              ELSE IF le[p].releaseSignal = 1 /\ le'[p].releaseSignal = 0
              THEN IF last'.op = "TickRelease" THEN "" ELSE "discarded"
              ELSE sig[p]]

Observe ==
    /\ ObserveSignal
    /\ ObserveCas /\ ObserveRun /\ ObserveCool /\ ObserveLost /\ ObserveTick
    /\ ObserveMissed /\ ObserveEarly /\ ObserveElected
    /\ UNCHANGED listed

Next ==
    \/ \E p \in Peers : StartLeaderElection(p) /\ Observe
    \/ \E p \in Peers : MainLoopEnter(p) /\ Observe
    \/ \E p \in Peers : TickSkip(p) /\ Observe
    \/ \E p \in Peers : TickRelease(p) /\ Observe
    \/ \E p \in Peers : TickHeartbeat(p) /\ Observe
    \/ \E p \in Peers : TickCheck(p) /\ Observe
    \/ \E p \in Peers : ElectGetVersion(p) /\ Observe
    \/ \E p \in Peers : ElectCAS(p) /\ Observe
    \/ \E p \in Peers : LoopExit(p) /\ Observe
    \/ \E p \in Peers : StopLeaderElections(p) /\ Observe
    \/ \E p \in Peers : CallIsLeader(p) /\ Observe
    \/ \E p \in Peers : ReleaseLeaderElection(p) /\ Observe
    \/ \E p \in Peers : Crash(p) /\ Observe
    \/ Advance /\ Observe

Spec == Init /\ [][Next]_vars

\* ------------------------------------------------------------ other scenarios

\* a leader that heartbeats for a long time over a store that fails twice
InitLong ==
    /\ InitProgram
    /\ listed = NoListing
    /\ env = [faults |-> 2, releases |-> 0, stops |-> 0, crashes |-> 0,
              maxVersion |-> LongVersion]

NextLong ==
    \/ \E p \in Peers : StartLeaderElection(p) /\ Observe
    \/ \E p \in Peers : MainLoopEnter(p) /\ Observe
    \/ \E p \in Peers : TickHeartbeat(p) /\ Observe
    \/ \E p \in Peers : TickCheck(p) /\ Observe
    \/ \E p \in Peers : ElectGetVersion(p) /\ Observe
    \/ \E p \in Peers : ElectCAS(p) /\ Observe
    \/ Advance /\ Observe

SpecLong == InitLong /\ [][NextLong]_vars

\* a peer releases its leadership, and the process of a leader exits
InitFailover ==
    /\ InitProgram
    /\ listed = NoListing
    /\ env = [faults |-> 0, releases |-> 1, stops |-> 0, crashes |-> 1,
              maxVersion |-> MaxVersion]

NextFailover ==
    \/ \E p \in Peers : StartLeaderElection(p) /\ Observe
    \/ \E p \in Peers : MainLoopEnter(p) /\ Observe
    \/ \E p \in Peers : TickSkip(p) /\ Observe
    \/ \E p \in Peers : TickRelease(p) /\ Observe
    \/ \E p \in Peers : TickHeartbeat(p) /\ Observe
    \/ \E p \in Peers : TickCheck(p) /\ Observe
    \/ \E p \in Peers : ElectGetVersion(p) /\ Observe
    \/ \E p \in Peers : ElectCAS(p) /\ Observe
    \/ \E p \in Peers : ReleaseLeaderElection(p) /\ Observe
    \/ \E p \in Peers : Crash(p) /\ Observe
    \/ Advance /\ Observe

SpecFailover == InitFailover /\ [][NextFailover]_vars

\* the store is healthy and every peer that has started keeps running
InitHealthy ==
    /\ InitProgram
    /\ listed = NoListing
    /\ env = [faults |-> 0, releases |-> 0, stops |-> 0, crashes |-> 0,
              maxVersion |-> MaxVersion]

NextHealthy ==
    \/ \E p \in Peers : StartLeaderElection(p) /\ Observe
    \/ \E p \in Peers : MainLoopEnter(p) /\ Observe
    \/ \E p \in Peers : TickHeartbeat(p) /\ Observe
    \/ \E p \in Peers : TickCheck(p) /\ Observe
    \/ \E p \in Peers : ElectGetVersion(p) /\ Observe
    \/ \E p \in Peers : ElectCAS(p) /\ Observe
    \/ Advance /\ Observe

SpecHealthy == InitHealthy /\ [][NextHealthy]_vars

\* an adminStore is stopped, and a release is asked for
InitStop ==
    /\ InitProgram
    /\ listed = NoListing
    /\ env = [faults |-> 0, releases |-> 1, stops |-> 1, crashes |-> 0,
              maxVersion |-> MaxVersion]

NextStop ==
    \/ \E p \in Peers : StartLeaderElection(p) /\ Observe
    \/ \E p \in Peers : MainLoopEnter(p) /\ Observe
    \/ \E p \in Peers : TickSkip(p) /\ Observe
    \/ \E p \in Peers : TickRelease(p) /\ Observe
    \/ \E p \in Peers : TickHeartbeat(p) /\ Observe
    \/ \E p \in Peers : TickCheck(p) /\ Observe
    \/ \E p \in Peers : ElectGetVersion(p) /\ Observe
    \/ \E p \in Peers : ElectCAS(p) /\ Observe
    \/ \E p \in Peers : LoopExit(p) /\ Observe
    \/ \E p \in Peers : StopLeaderElections(p) /\ Observe
    \/ \E p \in Peers : CallIsLeader(p) /\ Observe
    \/ \E p \in Peers : ReleaseLeaderElection(p) /\ Observe
    \/ Advance /\ Observe

SpecStop == InitStop /\ [][NextStop]_vars

\* an adminStore is stopped; the store is healthy
InitStopLive ==
    /\ InitProgram
    /\ listed = NoListing
    /\ env = [faults |-> 0, releases |-> 0, stops |-> 1, crashes |-> 0,
              maxVersion |-> MaxVersion]

NextStopLive ==
    \/ \E p \in Peers : StartLeaderElection(p) /\ Observe
    \/ \E p \in Peers : MainLoopEnter(p) /\ Observe
    \/ \E p \in Peers : TickHeartbeat(p) /\ Observe
    \/ \E p \in Peers : TickCheck(p) /\ Observe
    \/ \E p \in Peers : ElectGetVersion(p) /\ Observe
    \/ \E p \in Peers : ElectCAS(p) /\ Observe
    \/ \E p \in Peers : LoopExit(p) /\ Observe
    \/ \E p \in Peers : StopLeaderElections(p) /\ Observe
    \/ Advance /\ Observe

\* the goroutine that StartLeaderElection has started runs, a store call of a
\* tick in progress returns, and the select of mainLoop, whose case
\* <-le.ctx.Done() stays ready once the context is cancelled, is taken
FairStopLive ==
    \A p \in Peers :
        /\ WF_vars(MainLoopEnter(p) /\ Observe)
        /\ WF_vars(TickCheck(p) /\ Observe)
        /\ WF_vars(ElectGetVersion(p) /\ Observe)
        /\ WF_vars(ElectCAS(p) /\ Observe)
        /\ WF_vars(LoopExit(p) /\ Observe)

SpecStopLive == InitStopLive /\ [][NextStopLive]_vars /\ FairStopLive

\* releases are asked for again and again, of a healthy store
InitRelease ==
    /\ InitProgram
    /\ listed = NoListing
    /\ env = [faults |-> 0, releases |-> MaxReleases, stops |-> 0, crashes |-> 0,
              maxVersion |-> MaxVersion]

NextRelease ==
    \/ \E p \in Peers : StartLeaderElection(p) /\ Observe
    \/ \E p \in Peers : MainLoopEnter(p) /\ Observe
    \/ \E p \in Peers : TickSkip(p) /\ Observe
    \/ \E p \in Peers : TickRelease(p) /\ Observe
    \/ \E p \in Peers : TickHeartbeat(p) /\ Observe
    \/ \E p \in Peers : TickCheck(p) /\ Observe
    \/ \E p \in Peers : ElectGetVersion(p) /\ Observe
    \/ \E p \in Peers : ElectCAS(p) /\ Observe
    \/ \E p \in Peers : ReleaseLeaderElection(p) /\ Observe
    \/ Advance /\ Observe

SpecRelease == InitRelease /\ [][NextRelease]_vars

\* ------------------------------------------------------------ the listing

\* CAST(EXTRACT(EPOCH FROM mtime) AS INTEGER): the seconds of t, rounded to the
\* nearest
CastInteger(t) == (2 * t + Sub) \div (2 * Sub)

\* time.Now().Unix(): the whole seconds of t
Unix(t) == t \div Sub

\* checkLeaderValid(mtime) at the time now
checkLeaderValid(mtime, now) == Unix(now) - mtime <= LeaseTime

\* fetchLeaderElectionRows: the Valid of a row whose mtime column is mtime
fetchLeaderElectionRows(mtime, now) == checkLeaderValid(CastInteger(mtime), now)

\* CurrDiffTimeSecond(mtime) at the time now: the seconds since mtime
CurrDiffTimeSecond(mtime, now) == now - mtime

\* int32(diffTime): the whole seconds
Int32(diffTime) == diffTime \div Sub

BoolText(b) == IF b THEN "true" ELSE "false"

\* a row written at some part of a second; the clock starts there
InitList ==
    /\ InitProgram
    /\ env = [faults |-> 0, releases |-> 0, stops |-> 0, crashes |-> 0,
              maxVersion |-> MaxVersion]
    /\ \E m \in 0..(Sub - 1) : listed = [NoListing EXCEPT !.mtime = m, !.now = m]

ElectionUnchanged ==
    UNCHANGED <<rec, leMap, mutex, le, last, env, casApplied, run, cool, lost, tick0, missed,
                early, seen, elected, sig>>

\* leaderElectionStore.ListLeaderElections
ListLeaderElections ==
    /\ listed' = [listed EXCEPT
                    !.Valid = BoolText(fetchLeaderElectionRows(listed.mtime, listed.now))]
    /\ ElectionUnchanged

\* leaderElectionStore.CheckMtimeExpired(key, LeaseTime) on the same row
CheckLeaseOfListed ==
    /\ listed' = [listed EXCEPT
                    !.dead = BoolText(CheckMtimeExpired(
                        [NewRecord EXCEPT !.diffTime =
                            Int32(CurrDiffTimeSecond(listed.mtime, listed.now))],
                        LeaseTime).dead)]
    /\ ElectionUnchanged

\* a part of a second passes: what was read is out of date
Tock ==
    /\ listed.now - listed.mtime < (LeaseTime + ListPast) * Sub
    /\ listed' = [listed EXCEPT !.now = @ + 1, !.Valid = "", !.dead = ""]
    /\ ElectionUnchanged

NextList == ListLeaderElections \/ CheckLeaseOfListed \/ Tock

SpecList == InitList /\ [][NextList]_vars

\* ------------------------------------------------------------ claims

TickOps == {"TickSkip", "TickRelease", "TickHeartbeat", "TickCheck",
            "ElectGetVersion", "ElectCAS"}

ReleaseTicks == (LeaseTime \div TickTime) * 3

\* C1: for every version v, at most one CompareAndSwapVersion call with
\* curVersion v (and newVersion v + 1) ever reports applied, whatever the peers
\* and the interleaving of their calls.
C1_AtMostOneCasPerVersion == \A v \in DOMAIN casApplied : casApplied[v] <= 1

\* two peers have raced with the same curVersion: one call applied, the other
\* has just reported applied = false
C1_Witness ==
    /\ last.op = "ElectCAS" /\ ~last.call.applied /\ ~last.call.err
    /\ casApplied[last.call.curVersion] = 1

C3_CooldownTicksAreIdle ==
    \A p \in Peers :
        (last.peer = p /\ last.op \in TickOps /\ cool[p] \in 1..ReleaseTicks)
        => /\ last.op = "TickSkip"
           /\ last.call = NoCall
           /\ le[p].releaseTickLimit = ReleaseTicks - cool[p]

\* the cooldown is over: the sixteenth tick after the release wins an election
C3_Witness ==
    \E p \in Peers :
        /\ cool[p] = ReleaseTicks + 1
        /\ last.peer = p /\ last.op = "ElectCAS" /\ last.call.applied

C5_VersionGrowsByOne ==
    [][/\ rec'.version >= rec.version
       /\ (last'.call.name = "CAS" /\ last'.call.applied)
          => rec'.version = rec.version + 1]_vars

\* a heartbeat has applied on a record that was written before
C5_Witness ==
    last.op = "TickHeartbeat" /\ last.call.applied /\ rec.version >= 2

\* C6: a step publishes an event only if it changes leaderFlag or the known
\* leader of its state machine.
C6_EventOnlyOnChange ==
    [][\A p \in Peers :
          (last'.peer = p /\ last'.pub # <<>>)
          => \/ le'[p].leaderFlag # le[p].leaderFlag
             \/ le'[p].leader # le[p].leader]_vars

\* C7: from the step in which a peer becomes leader through HbRun = 10 ticks in
\* a row whose heartbeat applies, the peer publishes exactly one event, the one
\* of the acquisition, which names it as leader.
C7_OneEventPerLeaderRun ==
    \A p \in Peers : run[p].hb >= 0 => run[p].ev = 1 /\ run[p].evLeader = 1

\* ten heartbeats in a row have applied
C7_Witness == \E p \in Peers : run[p].hb = HbRun

C9_CasAppliesIffVersionMatches ==
    [][(last'.call.name = "CAS" /\ ~last'.call.err)
       => /\ last'.call.applied <=> (rec.exists /\ rec.version = last'.call.curVersion)
          /\ ~last'.call.applied => rec' = rec]_vars

\* a heartbeat has found another version than it expected
C9_Witness ==
    /\ last.op = "TickHeartbeat" /\ ~last.call.applied /\ ~last.call.err
    /\ rec.version # last.call.curVersion

\* C10: IsLeader calls no store operation; it returns false for a key that is not
\* in the registry and the leaderFlag of the registered state machine otherwise.
C10_IsLeaderReadsRegistry ==
    last.op = "IsLeader" =>
        /\ last.call = NoCall
        /\ \/ ~leMap[last.peer] /\ last.ret = "false"
           \/ /\ leMap[last.peer]
              /\ last.ret = IF le[last.peer].leaderFlag > 0 THEN "true" ELSE "false"

\* IsLeader has returned false for a stopped state machine that is still leader
C10_Witness ==
    /\ last.op = "IsLeader" /\ last.ret = "false"
    /\ ~leMap[last.peer] /\ le[last.peer].leaderFlag > 0

\* C11: ReleaseLeaderElection on a key that is not in the registry returns the
\* not-started error and changes nothing; on a key of the registry it sets the
\* release signal and returns nil, and leaderFlag, leader, releaseTickLimit and
\* the record stay as they are.
C11_ReleaseOnlySignals ==
    [][last'.op = "ReleaseLeaderElection" =>
         /\ rec' = rec /\ leMap' = leMap
         /\ \A q \in Peers \ {last'.peer} : le'[q] = le[q]
         /\ IF leMap[last'.peer]
            THEN /\ last'.ret = "nil"
                 /\ le'[last'.peer] = [le[last'.peer] EXCEPT !.releaseSignal = 1]
            ELSE /\ last'.ret = "not started"
                 /\ le'[last'.peer] = le[last'.peer]]_vars

\* a release has been asked of a leader, which is still the leader
C11_Witness ==
    /\ last.op = "ReleaseLeaderElection" /\ last.ret = "nil"
    /\ le[last.peer].leaderFlag > 0 /\ le[last.peer].releaseSignal = 1

\* C12: a tick that begins with the state machine leader and the release signal
\* set ends with leaderFlag 0, leader "", releaseTickLimit 15 and the signal
\* cleared, publishes the one event {key, false, ""} and calls no store operation.
C12_ReleaseTick ==
    [][\A p \in Peers :
          (/\ last'.peer = p /\ BeginsTick(p)
           /\ isLeader(le[p].leaderFlag) /\ le[p].releaseSignal = 1)
          => /\ le'[p].pc = "wait"
             /\ le'[p].leaderFlag = 0 /\ le'[p].leader = NoLeader
             /\ le'[p].releaseTickLimit = ReleaseTicks
             /\ le'[p].releaseSignal = 0
             /\ last'.pub = <<[Key |-> Key, Leader |-> FALSE, LeaderHost |-> NoLeader]>>
             /\ last'.call = NoCall
             /\ rec' = rec]_vars

\* a leader that had written the record several times has honoured a release
C12_Witness ==
    /\ last.op = "TickRelease" /\ rec.leader = last.peer /\ rec.version >= 2
    /\ le[last.peer].releaseTickLimit = ReleaseTicks

\* C13: StartLeaderElection on a key of the registry returns nil, calls no store
\* operation and changes nothing; otherwise it calls CreateLeaderElection and
\* registers one state machine, a follower, whose goroutine starts; if
\* CreateLeaderElection fails it returns the error and registers and starts nothing.
C13_StartLeaderElection ==
    [][last'.op = "StartLeaderElection" =>
         LET p == last'.peer IN
         /\ \A q \in Peers \ {p} : le'[q] = le[q] /\ leMap'[q] = leMap[q]
         /\ \/ /\ leMap[p]
               /\ last'.call = NoCall /\ last'.ret = "nil"
               /\ rec' = rec /\ le'[p] = le[p] /\ leMap'[p]
            \/ /\ ~leMap[p]
               /\ last'.call.name = "Create" /\ ~last'.call.err /\ last'.ret = "nil"
               /\ rec'.exists /\ leMap'[p]
               /\ le[p].pc = "none" /\ le'[p].pc = "spawned"
               /\ ~isLeader(le'[p].leaderFlag) /\ ~le'[p].cancelled
            \/ /\ ~leMap[p]
               /\ last'.call.name = "Create" /\ last'.call.err /\ last'.ret = "error"
               /\ rec' = rec /\ le'[p] = le[p] /\ ~leMap'[p]]_vars

\* StartLeaderElection has returned nil for a key whose state machine is leader
C13_Witness ==
    /\ last.op = "StartLeaderElection" /\ last.call = NoCall /\ last.ret = "nil"
    /\ le[last.peer].leaderFlag > 0

\* C14: StopLeaderElections cancels the registered state machine and empties the
\* registry; from then on IsLeader returns false and ReleaseLeaderElection fails
\* with not-started, also when the tick the cancelled state machine was in has
\* made it leader.
C14_StopEmptiesRegistry ==
    /\ last.op = "StopLeaderElections"
       => /\ ~leMap[last.peer]
          /\ le[last.peer].pc # "none" => le[last.peer].cancelled
    /\ \A p \in Peers :
         (le[p].pc # "none" /\ le[p].cancelled)
         => /\ ~IsLeader(p)
            /\ (last.peer = p /\ last.op = "IsLeader") => last.ret = "false"
            /\ (last.peer = p /\ last.op = "ReleaseLeaderElection")
               => last.ret = "not started"

\* a release is refused after StopLeaderElections, while the cancelled state
\* machine has won the election its tick was in
C14_Witness ==
    /\ last.op = "ReleaseLeaderElection" /\ last.ret = "not started"
    /\ le[last.peer].cancelled /\ le[last.peer].leaderFlag > 0

\* C15: whatever a store call of a tick returns, the goroutine of the state
\* machine goes on; it ends only when its context has been cancelled (or with
\* its process).
C15_LoopEndsOnlyOnCancel ==
    [][\A p \in Peers :
          /\ (last'.peer = p /\ last'.op \in TickOps)
             => le'[p].pc \in {"wait", "check", "elect", "cas"}
          /\ (le[p].pc # "none" /\ le'[p].pc = "none")
             => \/ last'.op = "LoopExit" /\ le[p].cancelled
                \/ last'.op = "Crash"]_vars

\* the dead check has failed with an error and the goroutine waits for its
\* next tick
C15_Witness ==
    /\ last.op = "TickCheck" /\ last.call.err
    /\ le[last.peer].pc = "wait" /\ ~le[last.peer].cancelled

\* C16: after one or two heartbeats in a row of a sole leader have failed with a
\* store error and the store is healthy again, the later heartbeats of the
\* leader apply, no dead check finds the lease expired and no election of
\* another peer applies.
C16_MissedHeartbeatsTolerated ==
    \A p \in Peers :
        missed[p] \in 1..2
        => /\ (last.peer = p /\ last.op = "TickHeartbeat" /\ ~last.call.err)
              => last.call.applied
           /\ (last.op = "TickCheck" /\ ~last.call.err)
              => ~CheckMtimeExpired(rec, LeaseTime).dead
           /\ (last.op = "ElectCAS" /\ last.peer # p) => ~last.call.applied

\* C19: a heartbeat or an election whose CompareAndSwapVersion has not applied
\* or has failed leaves the version of the state machine at the value it had
\* when the tick began.
C19_VersionOnlyAfterAppliedCas ==
    [][\A p \in Peers :
          (last'.peer = p /\ last'.call.name = "CAS" /\ ~last'.call.applied)
          => le'[p].version = TickStart(p).version]_vars

\* C20: a tick whose election CompareAndSwapVersion has not applied ends with
\* leaderFlag 0, whether the tick began as follower or as leader.
C20_LostElectionIsFollower ==
    [][\A p \in Peers :
          (/\ last'.peer = p /\ last'.op = "ElectCAS"
           /\ ~last'.call.err /\ ~last'.call.applied)
          => ~isLeader(le'[p].leaderFlag)]_vars

\* C18: in every reachable state, also while a tick or another method of the
\* adminStore is inside a store call, a call of IsLeader can return.
C18_IsLeaderNeverWaits == \A p \in Peers : ENABLED CallIsLeader(p)

\* C17: the Valid of a listed row is true exactly when CheckMtimeExpired with
\* LeaseTime, called at the same time, does not report the lease expired; a row
\* exactly LeaseTime seconds old is Valid and not expired.
C17_ValidIsNotExpired ==
    (listed.Valid # "" /\ listed.dead # "")
    => /\ (listed.Valid = "true") <=> (listed.dead = "false")
       /\ listed.now - listed.mtime = LeaseTime * Sub
          => listed.Valid = "true" /\ listed.dead = "false"

\* the places of a goroutine inside a tick, before a store call
MidTick == {"check", "elect", "cas"}

\* C21: a tick whose election CompareAndSwapVersion (stored version v to v + 1,
\* leader self) applies ends with leaderFlag 1, leader self, the local version v + 1 equal to the
\* stored one, the record naming self, and the one event {key, true, self}.
C21_WonElection ==
    [][\A p \in Peers :
          (last'.peer = p /\ last'.op = "ElectCAS" /\ last'.call.applied)
          => /\ last'.call.curVersion = rec.version
             /\ le'[p].pc = "wait"
             /\ isLeader(le'[p].leaderFlag) /\ le'[p].leader = p
             /\ le'[p].version = rec.version + 1 /\ rec'.version = le'[p].version
             /\ rec'.leader = p
             /\ last'.pub = <<[Key |-> Key, Leader |-> TRUE, LeaderHost |-> p]>>]_vars

\* the only peer has won the election on the record it created: the CAS 0 to 1
C21_Witness ==
    /\ last.op = "ElectCAS" /\ last.call.applied /\ last.call.curVersion = 0
    /\ rec.version = 1
    /\ \A q \in Peers \ {last.peer} : le[q].pc = "none"

\* C22: a tick in which CheckMtimeExpired, GetVersion or the election
\* CompareAndSwapVersion returns an error ends there, with leaderFlag and leader
\* as they were when the tick began and without any event published.
C22_ErrorKeepsBelief ==
    [][\A p \in Peers :
          /\ (/\ last'.peer = p /\ last'.call.err
              /\ last'.op \in {"TickCheck", "ElectGetVersion", "ElectCAS"})
             => /\ le'[p].pc = "wait"
                /\ le'[p].leaderFlag = TickStart(p).leaderFlag
                /\ le'[p].leader = TickStart(p).leader
                /\ last'.pub = <<>>
                /\ rec' = rec
          /\ (last'.peer = p /\ le'[p].pc \in MidTick)
             => /\ last'.pub = <<>>
                /\ le'[p].leaderFlag = TickStart(p).leaderFlag
                /\ le'[p].leader = TickStart(p).leader]_vars

\* the election CAS of a follower has failed with an error after another peer
\* had won
C22_Witness ==
    /\ last.op = "ElectCAS" /\ last.call.err
    /\ le[last.peer].pc = "wait" /\ ~isLeader(le[last.peer].leaderFlag)
    /\ rec.leader \in Peers \ {last.peer}

C24_FollowerUpdate ==
    [][\A p \in Peers :
          (/\ last'.peer = p /\ last'.op = "TickCheck" /\ ~last'.call.err
           /\ ~CheckMtimeExpired(rec, LeaseTime).dead
           /\ rec.leader # p)
          => /\ rec' = rec /\ le'[p].pc = "wait"
             /\ IF rec.leader # le[p].leader
                THEN /\ ~isLeader(le'[p].leaderFlag) /\ le'[p].leader = rec.leader
                     /\ last'.pub = <<[Key |-> Key, Leader |-> FALSE,
                                       LeaderHost |-> rec.leader]>>
                ELSE /\ le'[p].leaderFlag = le[p].leaderFlag
                     /\ le'[p].leader = le[p].leader
                     /\ last'.pub = <<>>]_vars

\* a follower that knows the leader has found the same leader again
C24_Witness ==
    /\ last.op = "TickCheck" /\ ~last.call.err /\ last.pub = <<>>
    /\ le[last.peer].pc = "wait"
    /\ rec.leader \in Peers \ {last.peer} /\ le[last.peer].leader = rec.leader

\* C25: a dead check that reports an unexpired lease of self ends the tick with
\* leaderFlag 1 and leader self: the check writes nothing and no change to
\* follower comes after.
C25_OwnLeaseMakesLeader ==
    [][\A p \in Peers :
          (/\ last'.peer = p /\ last'.op = "TickCheck" /\ ~last'.call.err
           /\ ~CheckMtimeExpired(rec, LeaseTime).dead
           /\ rec.leader = p)
          => /\ rec' = rec /\ last'.call.name = "Check"
             /\ le'[p].pc = "wait"
             /\ isLeader(le'[p].leaderFlag) /\ le'[p].leader = p
             /\ \A i \in DOMAIN last'.pub : last'.pub[i].Leader]_vars

\* a peer that came back on its own unexpired lease as a follower is leader again
C25_Witness ==
    /\ last.op = "TickCheck" /\ ~last.call.err
    /\ last.pub = <<[Key |-> Key, Leader |-> TRUE, LeaderHost |-> last.peer]>>
    /\ le[last.peer].version = 0 /\ rec.version >= 1

\* C26: a peer that starts on a record that names another peer with a fresh
\* lease is a follower after its first dead check and has published one event
\* by then, the {key, false, leader} of that check.
C26_OneEventUntilFirstCheck ==
    [][\A p \in Peers :
          (/\ last'.peer = p /\ last'.op = "TickCheck" /\ ~last'.call.err
           /\ early[p] >= 0
           /\ rec.leader \in Peers \ {p}
           /\ ~CheckMtimeExpired(rec, LeaseTime).dead)
          => /\ ~isLeader(le'[p].leaderFlag)
             /\ last'.pub = <<[Key |-> Key, Leader |-> FALSE, LeaderHost |-> rec.leader]>>
             /\ early[p] + Len(last'.pub) = 1]_vars

\* C27: a tick that is in progress when StopLeaderElections cancels the context
\* goes on through its remaining steps; the goroutine ends only from its select
\* (or with its process).
C27_CancelOnlyBetweenTicks ==
    [][\A p \in Peers :
          /\ (le[p].pc # "none" /\ le'[p].pc = "none" /\ last'.op # "Crash")
             => le[p].pc = "wait" /\ le[p].cancelled
          /\ (/\ le[p].cancelled /\ le[p].pc \in MidTick /\ le'[p] # le[p]
              /\ last'.op # "Crash")
             => /\ last'.peer = p /\ last'.op \in TickOps
                /\ le'[p].pc \in MidTick \cup {"wait"}]_vars

\* a state machine that was cancelled inside its tick has won the election of
\* that tick
C27_Witness ==
    /\ last.op = "ElectCAS" /\ last.call.applied
    /\ le[last.peer].cancelled /\ isLeader(le[last.peer].leaderFlag)
    /\ rec.leader = last.peer

\* C28: with a healthy store and every started peer ticking, at most one peer
\* has leaderFlag set.
C28_AtMostOneLeader ==
    Cardinality({p \in Peers : isLeader(le[p].leaderFlag)}) <= 1

\* C29: an applied CompareAndSwapVersion that replaces one peer by another as
\* the leader of the record finds the lease expired.
C29_OnlyExpiredLeaseOverwritten ==
    [][(/\ last'.call.name = "CAS" /\ last'.call.applied
        /\ rec.leader \in Peers /\ rec'.leader # rec.leader)
       => CheckMtimeExpired(rec, LeaseTime).dead]_vars

\* C30: of two peers whose dead checks have found the same expired lease (the
\* same stored version), at most one has its election CAS applied.
C30_OneWinnerPerExpiredLease ==
    [][\A p \in Peers :
          (last'.peer = p /\ last'.op = "ElectCAS" /\ last'.call.applied)
          => ~(elected.by \in Peers \ {p} /\ elected.seen = seen[p])]_vars

\* C31: a heartbeat of a leader that the record names (no other peer has written
\* since) applies when the store is healthy; so does the first heartbeat of a
\* peer that became leader through the dead check.
C31_LeaderVersionInSync ==
    (last.op = "TickHeartbeat" /\ ~last.call.err /\ rec.leader = last.peer)
    => last.call.applied

\* C32: the tick of a release writes nothing: the record names the releasing
\* peer with the version and mtime it had, and while that peer is in its
\* cooldown the election of another peer applies only on the expired lease.
C32_ReleaseLeavesRecord ==
    [][\A p \in Peers :
          /\ (last'.peer = p /\ last'.op = "TickRelease")
             => rec' = rec /\ rec'.leader = p
          /\ (/\ last'.op = "ElectCAS" /\ last'.call.applied /\ last'.peer # p
              /\ rec.leader = p /\ cool[p] \in 0..ReleaseTicks)
             => CheckMtimeExpired(rec, LeaseTime).dead]_vars

\* the ticks that begin with the release signal set while the state machine is
\* a follower (S names where the signal was set): a tick of the cooldown leaves
\* the signal set, any other consumes it, arms no cooldown and is no release
FollowerSignalDiscarded(S) ==
    \A p \in Peers :
        (sig[p] \in S /\ last'.peer = p /\ BeginsTick(p))
        => IF last'.op = "TickSkip"
           THEN le'[p].releaseSignal = 1
           ELSE /\ last'.op = "TickCheck"
                /\ le'[p].releaseSignal = 0 /\ le'[p].releaseTickLimit = 0
                /\ \A i \in DOMAIN last'.pub :
                      last'.pub[i] # [Key |-> Key, Leader |-> FALSE, LeaderHost |-> NoLeader]

\* C33, as stated: a release signal set while the state machine is a follower
\* is discarded by its next tick outside the cooldown and never makes a leader
\* step down.
C33_FollowerSignalDiscarded ==
    [][FollowerSignalDiscarded({"follower", "followerInTick"})]_vars

\* C33, amended: the same, for a signal set while the follower is between two
\* ticks.
C33_SignalBetweenTicksDiscarded == [][FollowerSignalDiscarded({"follower"})]_vars

\* a peer whose release signal was discarded while it was a follower has become
\* leader and its heartbeat has applied: no step-down
C33_Witness ==
    /\ last.op = "TickHeartbeat" /\ last.call.applied
    /\ sig[last.peer] = "discarded" /\ isLeader(le[last.peer].leaderFlag)

\* a tick of the cooldown has left the signal of a follower set
C33_SkipWitness ==
    /\ last.op = "TickSkip" /\ sig[last.peer] = "follower"
    /\ le[last.peer].releaseSignal = 1

\* C34: between two ticks leaderFlag is set exactly when the known leader is the
\* peer itself, and an event says Leader exactly when its LeaderHost is the
\* peer that publishes it.
C34_FlagIffKnownLeaderIsSelf ==
    /\ \A p \in Peers :
         le[p].pc \in {"none", "spawned", "wait"}
         => (isLeader(le[p].leaderFlag) <=> le[p].leader = p)
    /\ \A i \in DOMAIN last.pub :
         last.pub[i].Leader <=> last.pub[i].LeaderHost = last.peer

\* a leader has stepped down on a release and knows no leader
C34_Witness ==
    /\ last.op = "TickRelease"
    /\ ~isLeader(le[last.peer].leaderFlag) /\ le[last.peer].leader = NoLeader
    /\ last.pub # <<>>

\* C35: releaseTickLimit is between 0 and 15, and a state machine in cooldown is
\* not leader.
C35_CooldownIsFollower ==
    \A p \in Peers :
        /\ le[p].releaseTickLimit \in 0..ReleaseTicks
        /\ le[p].releaseTickLimit > 0 => ~isLeader(le[p].leaderFlag)

\* the last tick of a cooldown is due while another peer leads
C35_Witness ==
    \E p \in Peers :
        /\ le[p].releaseTickLimit = 1 /\ TickDue(p)
        /\ \E q \in Peers \ {p} : isLeader(le[q].leaderFlag)

\* C36: the loop of a cancelled state machine ends; at its end the state machine
\* is follower of no leader and publishes {key, false, ""} as its last event,
\* and after the end it makes no step of a tick and publishes nothing.
C36_CancelledLoopExits ==
    /\ \A p \in Peers : (le[p].cancelled /\ le[p].pc # "none") ~> (le[p].pc = "none")
    /\ [][\A p \in Peers :
            /\ (last'.op = "LoopExit" /\ last'.peer = p)
               => LET c == changeToFollower(Do(le[p], <<>>), NoLeader) IN
                    /\ le[p].cancelled
                    /\ ~isLeader(c.m.leaderFlag) /\ c.m.leader = NoLeader
                    /\ last'.pub # <<>>
                    /\ last'.pub[Len(last'.pub)] =
                           [Key |-> Key, Leader |-> FALSE, LeaderHost |-> NoLeader]
                    /\ le'[p].pc = "none"
            /\ (le[p].pc = "none" /\ last'.peer = p)
               => /\ last'.op \notin TickOps \cup {"MainLoopEnter", "LoopExit"}
                  /\ last'.pub = <<>>]_vars

\* the loop of a cancelled leader, whom the record still names, has ended
C36_Witness ==
    /\ last.op = "LoopExit" /\ rec.leader = last.peer
    /\ ~CheckMtimeExpired(rec, LeaseTime).dead
    /\ le[last.peer].pc = "none"

====
